---- MODULE Spec2Model ----
(***************************************************************************)
(* Model of dongwook9805/dental-insurance-ai:                              *)
(*   scripts/build_dataset.py        chunk_paragraphs, fetch_embedding,    *)
(*                                   build_sql, main                       *)
(*   fetch_taxlaw_cases_to_pdf.py    fetch_case, download_pdf, main        *)
(* Text is a sequence of one-character strings, so that len(), " ".join()  *)
(* and str.strip() are computed on characters as the code computes them.   *)
(***************************************************************************)
EXTENDS Integers, Sequences, FiniteSets, TLC

\* ------------------------------------------------------------------ bounds
\* Most paragraphs in one input, and the longest paragraph.
MaxParas == 3
MaxParaLen == 3
\* --max-chars, --min-chars and --max-chunks are any int (type=int): each is
\* drawn from -NegArg .. its upper bound.
NegArg == 1
MaxMaxChars == 8
MaxMinChars == 4
MaxMaxChunks == 3

\* Downloader: --start and --end are drawn from 0..MaxId.
MaxId == 3

\* build_dataset.py line 29
DIM == 1536

VARIABLES
    \* chunk_paragraphs: its arguments, its locals, its position, its result
    paragraphs, max_chars, min_chars, max_chunks,
    chunks, buffer, buffer_len, i, pc, result,
    \* build_dataset.main: its position, the environment it reads (the PDF file,
    \* OPENAI_API_KEY), the embedding loop's locals, what the embedding provider
    \* has been sent and has answered, the output directory and file, and the
    \* message the process exited with
    mpc, pdf_exists, api_key, idx, dataset, provider_log, out_dir, out_file, exit_msg,
    \* fetch_taxlaw_cases_to_pdf.main: its position, --start, --end and --delay,
    \* the loop's locals, the IDs handed to fetch_case, and the lines logged
    dpc, d_start, d_end, delay, ntst_id, d_idx, total, saved, skipped, fetched,
    log_lines

chunk_vars == <<paragraphs, max_chars, min_chars, max_chunks,
                chunks, buffer, buffer_len, i, pc, result>>
main_vars == <<mpc, pdf_exists, api_key, idx, dataset, provider_log,
               out_dir, out_file, exit_msg>>
dl_vars == <<dpc, d_start, d_end, delay, ntst_id, d_idx, total, saved, skipped,
             fetched, log_lines>>
vars == <<chunk_vars, main_vars, dl_vars>>

\* ------------------------------------------------------------------- text
Alphabet == <<"a", "b", "c", "d", "e", "f">>
Letter(j) == Alphabet[((j - 1) % Len(Alphabet)) + 1]

\* The paragraph at input position j with n characters: normalized as
\* extract_paragraphs leaves it (non-empty, no leading or trailing blank,
\* single blanks inside: "a", "aa", "a a", "a aa", ...).
Para(j, n) == [k \in 1..n |-> IF k % 2 = 0 /\ k < n /\ k > 1 THEN " " ELSE Letter(j)]

ParagraphLists ==
    UNION { { [j \in 1..n |-> Para(j, lens[j])] : lens \in [1..n -> 1..MaxParaLen] }
            : n \in 0..MaxParas }

IsSpace(c) == c = " "

RECURSIVE LStrip(_)
LStrip(s) == IF s # <<>> /\ IsSpace(Head(s)) THEN LStrip(Tail(s)) ELSE s

RECURSIVE RStrip(_)
RStrip(s) ==
    IF s # <<>> /\ IsSpace(s[Len(s)]) THEN RStrip(SubSeq(s, 1, Len(s) - 1)) ELSE s

\* str.strip()
Strip(s) == RStrip(LStrip(s))

\* " ".join(buf)
RECURSIVE Join(_)
Join(buf) ==
    IF buf = <<>> THEN <<>>
    ELSE IF Len(buf) = 1 THEN buf[1]
    ELSE buf[1] \o <<" ">> \o Join(Tail(buf))

\* Mutant of line 87: the list returned whole.
PySliceNone(s, m) == s

\* s[:m], Python's slice: a negative m counts from the end.
PySliceTo(s, m) ==
    IF m >= 0 THEN SubSeq(s, 1, IF m < Len(s) THEN m ELSE Len(s))
    ELSE SubSeq(s, 1, Len(s) + m)

\* ------------------------------------------------------- chunk_paragraphs
\* Mutants of line 73: the separator and the paragraph counted short by two;
\* the incoming paragraph not counted at all.
OverflowsShortCount(buf, blen, p, maxc) == buf # <<>> /\ blen + Len(p) - 1 > maxc
OverflowsBufferOnly(buf, blen, p, maxc) == buf # <<>> /\ blen > maxc

\* line 73: buffer and buffer_len + len(paragraph) + 1 > max_chars
Overflows(buf, blen, p, maxc) == buf # <<>> /\ blen + Len(p) + 1 > maxc

\* lines 74, 84: chunk = " ".join(buffer).strip()
FlushChunk(buf) == Strip(Join(buf))

\* lines 75-76, 85-86: if len(chunk) >= min_chars: chunks.append(chunk)
Accept(cs, chunk, minc) == IF Len(chunk) >= minc THEN Append(cs, chunk) ELSE cs

\* Mutant of line 79: > for >=.
LimitExceeded(cs, maxk) == Len(cs) > maxk

\* line 79: if len(chunks) >= max_chunks: break
LimitReached(cs, maxk) == Len(cs) >= maxk

\* chunk_paragraphs as a function of its arguments (lines 63-87): the loop from
\* paragraph j on, giving the locals at the loop's exit.
RECURSIVE ChunkLoop(_, _, _, _, _, _, _, _)
ChunkLoop(ps, j, cs, buf, blen, maxc, minc, maxk) ==
    IF j > Len(ps) THEN [chunks |-> cs, buffer |-> buf]
    ELSE IF Overflows(buf, blen, ps[j], maxc)
         THEN LET flushed == Accept(cs, FlushChunk(buf), minc)
              IN  IF LimitReached(flushed, maxk)
                  THEN [chunks |-> flushed, buffer |-> <<>>]
                  ELSE ChunkLoop(ps, j + 1, flushed, <<ps[j]>>, Len(ps[j]) + 1,
                                 maxc, minc, maxk)
         ELSE ChunkLoop(ps, j + 1, cs, Append(buf, ps[j]), blen + Len(ps[j]) + 1,
                        maxc, minc, maxk)

ChunkParagraphs(ps, maxc, minc, maxk) ==
    LET exit == ChunkLoop(ps, 1, <<>>, <<>>, 0, maxc, minc, maxk)
        final == IF exit.buffer # <<>> /\ Len(exit.chunks) < maxk
                 THEN Accept(exit.chunks, FlushChunk(exit.buffer), minc)
                 ELSE exit.chunks
    IN  PySliceTo(final, maxk)

\* lines 69-71: the locals at entry
EnterChunk ==
    /\ chunks = <<>>
    /\ buffer = <<>>
    /\ buffer_len = 0
    /\ i = 1
    /\ result = <<>>

\* Mutants of lines 73-80: a rejected buffer is kept and merged forward; the
\* loop goes on after the limit is reached.
LoopFlushKeepRejected ==
    /\ pc = "loop"
    /\ i <= Len(paragraphs)
    /\ Overflows(buffer, buffer_len, paragraphs[i], max_chars)
    /\ chunks' = Accept(chunks, FlushChunk(buffer), min_chars)
    /\ buffer' = IF chunks' = chunks THEN buffer ELSE <<>>
    /\ buffer_len' = IF chunks' = chunks THEN buffer_len ELSE 0
    /\ pc' = IF LimitReached(chunks', max_chunks) THEN "after" ELSE "append"
    /\ UNCHANGED <<paragraphs, max_chars, min_chars, max_chunks, i, result>>

LoopFlushNoBreak ==
    /\ pc = "loop"
    /\ i <= Len(paragraphs)
    /\ Overflows(buffer, buffer_len, paragraphs[i], max_chars)
    /\ chunks' = Accept(chunks, FlushChunk(buffer), min_chars)
    /\ buffer' = <<>>
    /\ buffer_len' = 0
    /\ pc' = "append"
    /\ UNCHANGED <<paragraphs, max_chars, min_chars, max_chunks, i, result>>

\* lines 73-80: the paragraph overflows the buffer: flush, reset, maybe break
LoopFlush ==
    /\ pc = "loop"
    /\ i <= Len(paragraphs)
    /\ Overflows(buffer, buffer_len, paragraphs[i], max_chars)
    /\ chunks' = Accept(chunks, FlushChunk(buffer), min_chars)
    /\ buffer' = <<>>
    /\ buffer_len' = 0
    /\ pc' = IF LimitReached(chunks', max_chunks) THEN "after" ELSE "append"
    /\ UNCHANGED <<paragraphs, max_chars, min_chars, max_chunks, i, result>>

\* Mutant of line 81: the paragraph put at the front of the buffer.
LoopAppendFront ==
    /\ i <= Len(paragraphs)
    /\ \/ pc = "append"
       \/ pc = "loop" /\ ~Overflows(buffer, buffer_len, paragraphs[i], max_chars)
    /\ buffer' = <<paragraphs[i]>> \o buffer
    /\ buffer_len' = buffer_len + Len(paragraphs[i]) + 1
    /\ i' = i + 1
    /\ pc' = "loop"
    /\ UNCHANGED <<paragraphs, max_chars, min_chars, max_chunks, chunks, result>>

\* lines 81-82: buffer.append(paragraph); buffer_len += len(paragraph) + 1
LoopAppend ==
    /\ i <= Len(paragraphs)
    /\ \/ pc = "append"
       \/ pc = "loop" /\ ~Overflows(buffer, buffer_len, paragraphs[i], max_chars)
    /\ buffer' = Append(buffer, paragraphs[i])
    /\ buffer_len' = buffer_len + Len(paragraphs[i]) + 1
    /\ i' = i + 1
    /\ pc' = "loop"
    /\ UNCHANGED <<paragraphs, max_chars, min_chars, max_chunks, chunks, result>>

\* line 72: the for loop is exhausted
LoopEnd ==
    /\ pc = "loop"
    /\ i > Len(paragraphs)
    /\ pc' = "after"
    /\ UNCHANGED <<paragraphs, max_chars, min_chars, max_chunks,
                   chunks, buffer, buffer_len, i, result>>

\* lines 83-86: the flush after the loop (the buffer is not reset here)
FinalFlush ==
    /\ pc = "after"
    /\ chunks' = IF buffer # <<>> /\ Len(chunks) < max_chunks
                 THEN Accept(chunks, FlushChunk(buffer), min_chars)
                 ELSE chunks
    /\ pc' = "return"
    /\ UNCHANGED <<paragraphs, max_chars, min_chars, max_chunks,
                   buffer, buffer_len, i, result>>

\* line 87: return chunks[:max_chunks]
Return ==
    /\ pc = "return"
    /\ result' = PySliceTo(chunks, max_chunks)
    /\ pc' = "done"
    /\ UNCHANGED <<paragraphs, max_chars, min_chars, max_chunks,
                   chunks, buffer, buffer_len, i>>

ChunkNext ==
    \/ LoopFlush /\ UNCHANGED <<main_vars, dl_vars>>
    \/ LoopAppend /\ UNCHANGED <<main_vars, dl_vars>>
    \/ LoopEnd /\ UNCHANGED <<main_vars, dl_vars>>
    \/ FinalFlush /\ UNCHANGED <<main_vars, dl_vars>>
    \/ Return /\ UNCHANGED <<main_vars, dl_vars>>

\* ------------------------------------------------- build_dataset.py: main
\* lines 90-111: fetch_embedding on the provider's response. A vector is kept
\* as its length, the only thing the code reads of it.
FetchEmbedding(resp) ==
    IF resp.status # 200 THEN [raised |-> "RuntimeError", embedding |-> 0]
    ELSE IF resp.dim # DIM THEN [raised |-> "ValueError", embedding |-> 0]
    ELSE [raised |-> "", embedding |-> resp.dim]

\* What the provider may answer: a status and the length of the vector sent.
Responses == [status : {200, 500}, dim : {DIM, DIM - 1}]

\* lines 114-115: value.replace("'", "''")
RECURSIVE sql_escape(_)
sql_escape(value) ==
    IF value = <<>> THEN <<>>
    ELSE (IF Head(value) = "'" THEN <<"'", "'">> ELSE <<Head(value)>>)
         \o sql_escape(Tail(value))

\* lines 122-128: one value row per (content, embedding), numbered from 0
build_sql(data) ==
    [k \in 1..Len(data) |->
        [chunk_index |-> k - 1, content |-> sql_escape(data[k][1]), dim |-> data[k][2]]]

\* The output file before it is written.
NoFile == [written |-> FALSE, rows |-> <<>>]

MainIdle ==
    /\ mpc = "idle"
    /\ pdf_exists = FALSE
    /\ api_key = FALSE
    /\ idx = 0
    /\ dataset = <<>>
    /\ provider_log = <<>>
    /\ out_dir = FALSE
    /\ out_file = NoFile
    /\ exit_msg = ""

ChunkIdle ==
    /\ paragraphs = <<>>
    /\ max_chars = 0
    /\ min_chars = 0
    /\ max_chunks = 0
    /\ EnterChunk
    /\ pc = "idle"

\* raise SystemExit(msg), or an exception nobody catches
Exit(msg) ==
    /\ mpc' = "exit_error"
    /\ exit_msg' = msg

\* lines 152-154
MainCheckPdf ==
    /\ mpc = "start"
    /\ IF pdf_exists
       THEN mpc' = "key" /\ UNCHANGED exit_msg
       ELSE Exit("PDF not found")
    /\ UNCHANGED <<chunk_vars, pdf_exists, api_key, idx, dataset, provider_log,
                   out_dir, out_file>>

\* lines 156-158
MainCheckKey ==
    /\ mpc = "key"
    /\ IF api_key
       THEN mpc' = "extract" /\ UNCHANGED exit_msg
       ELSE Exit("OPENAI_API_KEY is required to generate embeddings.")
    /\ UNCHANGED <<chunk_vars, pdf_exists, api_key, idx, dataset, provider_log,
                   out_dir, out_file>>

\* lines 160-164: extract_paragraphs gives some list of normalized paragraphs;
\* an empty one is fatal, any other is handed to chunk_paragraphs.
MainExtract ==
    /\ mpc = "extract"
    /\ \E ps \in ParagraphLists :
          /\ paragraphs' = ps
          /\ IF ps = <<>>
             THEN /\ Exit("No text extracted from PDF.")
                  /\ UNCHANGED pc
             ELSE /\ mpc' = "chunk"
                  /\ pc' = "loop"
                  /\ UNCHANGED exit_msg
    /\ chunks' = <<>>
    /\ buffer' = <<>>
    /\ buffer_len' = 0
    /\ i' = 1
    /\ result' = <<>>
    /\ UNCHANGED <<max_chars, min_chars, max_chunks, pdf_exists, api_key, idx,
                   dataset, provider_log, out_dir, out_file>>

\* Mutant of lines 165-166: the empty list is not checked for.
MainCheckChunksUnchecked ==
    /\ mpc = "chunk"
    /\ pc = "done"
    /\ mpc' = "embed"
    /\ idx' = 1
    /\ dataset' = <<>>
    /\ UNCHANGED <<chunk_vars, pdf_exists, api_key, provider_log, out_dir,
                   out_file, exit_msg>>

\* lines 165-168: chunk_paragraphs has returned
MainCheckChunks ==
    /\ mpc = "chunk"
    /\ pc = "done"
    /\ IF result = <<>>
       THEN /\ Exit("Chunking produced no output.")
            /\ UNCHANGED <<idx, dataset>>
       ELSE /\ mpc' = "embed"
            /\ idx' = 1
            /\ dataset' = <<>>
            /\ UNCHANGED exit_msg
    /\ UNCHANGED <<chunk_vars, pdf_exists, api_key, provider_log, out_dir, out_file>>

\* Mutant of lines 169-172: a chunk whose embedding fails is skipped.
MainEmbedSkipFailed ==
    /\ mpc = "embed"
    /\ idx <= Len(result)
    /\ \E resp \in Responses :
          LET got == FetchEmbedding(resp) IN
          /\ provider_log' = Append(provider_log, [input |-> result[idx], resp |-> resp])
          /\ dataset' = IF got.raised # "" THEN dataset
                        ELSE Append(dataset, <<result[idx], got.embedding>>)
          /\ idx' = idx + 1
          /\ UNCHANGED <<mpc, exit_msg>>
    /\ UNCHANGED <<chunk_vars, pdf_exists, api_key, out_dir, out_file>>

\* lines 169-172: one pass of the embedding loop; fetch_embedding's exception
\* is caught nowhere and ends the process.
MainEmbed ==
    /\ mpc = "embed"
    /\ idx <= Len(result)
    /\ \E resp \in Responses :
          LET got == FetchEmbedding(resp) IN
          /\ provider_log' = Append(provider_log, [input |-> result[idx], resp |-> resp])
          /\ IF got.raised # ""
             THEN /\ Exit(got.raised)
                  /\ UNCHANGED <<idx, dataset>>
             ELSE /\ dataset' = Append(dataset, <<result[idx], got.embedding>>)
                  /\ idx' = idx + 1
                  /\ UNCHANGED <<mpc, exit_msg>>
    /\ UNCHANGED <<chunk_vars, pdf_exists, api_key, out_dir, out_file>>

\* lines 174-178: the loop is over: mkdir, build_sql, write_text
MainWrite ==
    /\ mpc = "embed"
    /\ idx > Len(result)
    /\ out_dir' = TRUE
    /\ out_file' = [written |-> TRUE, rows |-> build_sql(dataset)]
    /\ mpc' = "exit_ok"
    /\ UNCHANGED <<chunk_vars, pdf_exists, api_key, idx, dataset, provider_log,
                   exit_msg>>

\* ------------------------------------------ fetch_taxlaw_cases_to_pdf.py
\* What the site may do for one ID: the detail action, the PDF download and
\* the file-info fallback.
NetOutcomes ==
    [detail : {"error", "none", "no_attachment", "no_file_id", "ok"},
     pdf : {"ok", "bad", "raise"},
     fallback : {"ok", "none", "bad", "raise"}]

\* lines 107-149: fetch_case gives True, False, or lets an exception out
\* (download_pdf, line 134, is called outside any try).
fetch_case(net) ==
    IF net.detail = "error" THEN "False"
    ELSE IF net.detail \in {"none", "no_attachment", "no_file_id"} THEN "False"
    ELSE IF net.pdf = "raise" THEN "raise"
    ELSE IF net.pdf = "ok" THEN "True"
    ELSE IF net.fallback = "ok" THEN "True"
    ELSE "False"

DlIdle ==
    /\ dpc = "idle"
    /\ d_start = 0
    /\ d_end = 0
    /\ delay = 0
    /\ ntst_id = 0
    /\ d_idx = 0
    /\ total = 0
    /\ saved = 0
    /\ skipped = 0
    /\ fetched = <<>>
    /\ log_lines = <<>>

\* lines 172-198: the range check, then the loop's set-up
DlStart ==
    /\ dpc = "args"
    /\ IF d_start > d_end
       THEN /\ dpc' = "exit_1"
            /\ UNCHANGED <<total, ntst_id, d_idx>>
       ELSE /\ dpc' = "loop"
            /\ total' = d_end - d_start + 1
            /\ ntst_id' = d_start
            /\ d_idx' = 1
    /\ saved' = 0
    /\ skipped' = 0
    /\ UNCHANGED <<chunk_vars, main_vars, d_start, d_end, delay, fetched, log_lines>>

\* line 212: time.sleep(delay) raises ValueError on a negative delay, which
\* nothing catches: the process ends there.
Sleep ==
    IF delay < 0
    THEN /\ dpc' = "crashed"
         /\ UNCHANGED <<ntst_id, d_idx>>
    ELSE /\ ntst_id' = ntst_id + 1
         /\ d_idx' = d_idx + 1
         /\ UNCHANGED dpc

\* Mutant of lines 201-205: no try around fetch_case.
DlIterateUncaught ==
    /\ dpc = "loop"
    /\ ntst_id <= d_end
    /\ \E net \in NetOutcomes :
          LET got == fetch_case(net) IN
          /\ fetched' = Append(fetched, ntst_id)
          /\ IF got = "raise"
             THEN /\ dpc' = "crashed"
                  /\ UNCHANGED <<saved, skipped, log_lines, ntst_id, d_idx>>
             ELSE /\ saved' = IF got = "True" THEN saved + 1 ELSE saved
                  /\ skipped' = IF got = "True" THEN skipped ELSE skipped + 1
                  /\ log_lines' = Append(log_lines,
                         [idx |-> d_idx, id |-> ntst_id,
                          what |-> IF got = "True" THEN "saved" ELSE "skipped"])
                  /\ Sleep
    /\ UNCHANGED <<chunk_vars, main_vars, d_start, d_end, delay, total>>

\* lines 200-212: one pass of the loop over range(start, end + 1)
DlIterate ==
    /\ dpc = "loop"
    /\ ntst_id <= d_end
    /\ \E net \in NetOutcomes :
          LET got == fetch_case(net)
              success == got = "True"
              errors == IF got = "raise"
                        THEN <<[idx |-> d_idx, id |-> ntst_id, what |-> "error"]>>
                        ELSE <<>>
          IN
          /\ fetched' = Append(fetched, ntst_id)
          /\ saved' = IF success THEN saved + 1 ELSE saved
          /\ skipped' = IF success THEN skipped ELSE skipped + 1
          /\ log_lines' = log_lines \o errors \o
                 <<[idx |-> d_idx, id |-> ntst_id,
                    what |-> IF success THEN "saved" ELSE "skipped"]>>
    /\ Sleep
    /\ UNCHANGED <<chunk_vars, main_vars, d_start, d_end, delay, total>>

\* line 214: the loop is over: [DONE] saved=, skipped=, total=
DlDone ==
    /\ dpc = "loop"
    /\ ntst_id > d_end
    /\ log_lines' = Append(log_lines,
           [what |-> "DONE", saved |-> saved, skipped |-> skipped, total |-> total])
    /\ dpc' = "done"
    /\ UNCHANGED <<chunk_vars, main_vars, d_start, d_end, delay, ntst_id, d_idx,
                   total, saved, skipped, fetched>>

\* ---------------------------------------------------------- specifications
\* A call of chunk_paragraphs on any paragraph list and any arguments.
Init ==
    /\ paragraphs \in ParagraphLists
    /\ max_chars \in (-NegArg)..MaxMaxChars
    /\ min_chars \in (-NegArg)..MaxMinChars
    /\ max_chunks \in (-NegArg)..MaxMaxChunks
    /\ EnterChunk
    /\ pc = "loop"
    /\ MainIdle
    /\ DlIdle

Next == ChunkNext

Spec == Init /\ [][Next]_vars

\* A run of build_dataset.py: the PDF may be missing, the key unset; the
\* arguments are the least and the greatest of each range (and every
\* --max-chunks from 0 up).
InitMain ==
    /\ paragraphs = <<>>
    /\ max_chars \in {0, MaxMaxChars}
    /\ min_chars \in {0, MaxMinChars}
    /\ max_chunks \in 0..MaxMaxChunks
    /\ EnterChunk
    /\ pc = "idle"
    /\ mpc = "start"
    /\ pdf_exists \in BOOLEAN
    /\ api_key \in BOOLEAN
    /\ idx = 0
    /\ dataset = <<>>
    /\ provider_log = <<>>
    /\ out_dir = FALSE
    /\ out_file = NoFile
    /\ exit_msg = ""
    /\ DlIdle

NextMain ==
    \/ MainCheckPdf /\ UNCHANGED dl_vars
    \/ MainCheckKey /\ UNCHANGED dl_vars
    \/ MainExtract /\ UNCHANGED dl_vars
    \/ ChunkNext
    \/ MainCheckChunks /\ UNCHANGED dl_vars
    \/ MainEmbed /\ UNCHANGED dl_vars
    \/ MainWrite /\ UNCHANGED dl_vars

SpecMain == InitMain /\ [][NextMain]_vars

\* A run of fetch_taxlaw_cases_to_pdf.py on any --start, --end and --delay
\* (type=float: a negative, a zero and a positive one).
InitDl ==
    /\ ChunkIdle
    /\ MainIdle
    /\ dpc = "args"
    /\ d_start \in 0..MaxId
    /\ d_end \in 0..MaxId
    /\ delay \in {-1, 0, 1}
    /\ ntst_id = 0
    /\ d_idx = 0
    /\ total = 0
    /\ saved = 0
    /\ skipped = 0
    /\ fetched = <<>>
    /\ log_lines = <<>>

NextDl == DlStart \/ DlIterate \/ DlDone

SpecDl == InitDl /\ [][NextDl]_vars

\* ================================================================= claims
Range(s) == { s[k] : k \in 1..Len(s) }
Max(a, b) == IF a >= b THEN a ELSE b
FirstN(s, n) == SubSeq(s, 1, IF n < Len(s) THEN n ELSE Len(s))
Positions == 1..Len(paragraphs)
Oversized(j) == Len(paragraphs[j]) > max_chars

\* Paragraph j's letter occurs in a text / in a chunk of cs / in the buffer.
\* Positions of one input carry distinct letters (MaxParas < Len(Alphabet)).
Occurs(j, text) == \E k \in 1..Len(text) : text[k] = Letter(j)
InChunks(j, cs) == \E k \in 1..Len(cs) : Occurs(j, cs[k])
InBuffer(j) == \E k \in 1..Len(buffer) : Occurs(j, buffer[k])

\* The chunks the same input yields with no chunk limit.
NoLimit == ChunkParagraphs(paragraphs, max_chars, min_chars, Len(paragraphs) + 1)

\* ---------------------------------------------------------------------- C1
\* C1: every chunk emitted (and every chunk returned) has length <= max_chars,
\* except a chunk that is exactly one paragraph whose own length exceeds
\* max_chars.
C1_ChunkWithinMaxChars ==
    \A c \in Range(chunks) \cup Range(result) :
        \/ Len(c) <= max_chars
        \/ \E j \in Positions : c = paragraphs[j] /\ Oversized(j)

\* A returned list holding an oversized singleton beside a chunk within the bound.
C1_Witness ==
    /\ pc = "done"
    /\ max_chars > 0
    /\ \E k, l \in 1..Len(result) :
           Len(result[k]) > max_chars /\ Len(result[l]) <= max_chars

\* ---------------------------------------------------------------------- C2
\* A paragraph that was consumed and is neither buffered nor in a chunk.
Gone(j) == j < i /\ ~InChunks(j, chunks) /\ ~InBuffer(j)

\* C2: every emitted chunk has joined length >= min_chars; an in-loop flush
\* appends the joined buffer iff its length is >= min_chars and resets buffer
\* and counter either way; a final flush of a short buffer appends nothing; a
\* paragraph that has left the buffer without being emitted never shows up in a
\* chunk afterwards, nor in the result.
C2_FlushAcceptsOrDrops ==
    /\ [](\A c \in Range(chunks) \cup Range(result) : Len(c) >= min_chars)
    /\ [][(pc = "loop" /\ pc' \in {"append", "after"} /\ i <= Len(paragraphs))
            => /\ buffer' = <<>>
               /\ buffer_len' = 0
               /\ chunks' = IF Len(FlushChunk(buffer)) >= min_chars
                            THEN Append(chunks, FlushChunk(buffer))
                            ELSE chunks]_vars
    /\ [][(pc = "after" /\ pc' = "return" /\ Len(FlushChunk(buffer)) < min_chars)
            => chunks' = chunks]_vars
    /\ [][\A j \in Positions : Gone(j) => Gone(j)']_vars
    /\ [](pc = "done" => \A j \in Positions : Gone(j) => ~InChunks(j, result))

\* The whole input was consumed below the chunk limit, something was emitted,
\* and a paragraph is missing from the result: its buffer was dropped.
C2_Witness ==
    /\ pc = "done"
    /\ i > Len(paragraphs)
    /\ result # <<>>
    /\ Len(result) < max_chunks
    /\ \E j \in Positions : Gone(j)

\* ---------------------------------------------------------------------- C3
\* C3 as stated: for every integer max_chunks the number of returned chunks
\* never exceeds max_chunks.
C3_Original == pc = "done" => Len(result) <= max_chunks

\* C3 amended: the number of returned chunks never exceeds max(max_chunks, 0).
C3_AtMostMaxChunks == pc = "done" => Len(result) <= Max(max_chunks, 0)

\* The limit cut the output: more chunks without it, exactly max_chunks with it.
C3_Witness ==
    /\ pc = "done"
    /\ max_chunks >= 0
    /\ Len(NoLimit) > max_chunks
    /\ Len(result) = max_chunks

\* ---------------------------------------------------------------------- C4
\* cs[k..] are joins, by single spaces, of contiguous runs of the input, each
\* run starting at or after position from and after the run before it.
RECURSIVE RunsFrom(_, _, _)
RunsFrom(cs, k, from) ==
    \/ k > Len(cs)
    \/ \E lo \in from..Len(paragraphs) : \E hi \in lo..Len(paragraphs) :
           /\ cs[k] = Join(SubSeq(paragraphs, lo, hi))
           /\ RunsFrom(cs, k + 1, hi + 1)

\* C4: the emitted chunks are joins of disjoint contiguous runs of the input in
\* increasing position, all before the buffered run (until the final flush
\* emits it), which is the contiguous run ending at the last consumed
\* paragraph; the result is such a list too.
C4_OrderPreserved ==
    /\ buffer = SubSeq(paragraphs, i - Len(buffer), i - 1)
    /\ (pc \in {"loop", "append", "after"} /\ buffer # <<>>)
           => RunsFrom(Append(chunks, Join(buffer)), 1, 1)
    /\ RunsFrom(chunks, 1, 1)
    /\ pc = "done" => RunsFrom(result, 1, 1)

\* Two chunks returned, one of them joined from several paragraphs.
C4_Witness ==
    /\ pc = "done"
    /\ Len(result) = 2
    /\ \E k \in 1..2 : result[k] \notin Range(paragraphs)

C8_StopsAtLimit ==
    /\ pc = "append" => Len(chunks) < max_chunks
    /\ (pc \in {"after", "return", "done"} /\ i <= Len(paragraphs))
           => /\ buffer = <<>>
              /\ Len(chunks) >= max_chunks
              /\ \A j \in i..Len(paragraphs) : ~InChunks(j, chunks)
    /\ pc = "done" => \A j \in i..Len(paragraphs) : ~InChunks(j, result)
    /\ (pc = "done" /\ Len(NoLimit) > max_chunks)
           => result = FirstN(NoLimit, max_chunks)

\* The loop stopped early with max_chunks chunks, paragraphs left unread.
C8_Witness ==
    /\ pc = "done"
    /\ max_chunks >= 2
    /\ i <= Len(paragraphs)
    /\ Len(result) = max_chunks
    /\ Len(NoLimit) > max_chunks

\* ---------------------------------------------------------------------- C9
\* C9 as stated: the truncation at the return never removes a chunk.
C9_Original == pc = "done" => result = chunks

\* C9 amended: when max_chunks >= 1 the accumulated output never holds more
\* than max_chunks chunks and the truncation removes none.
C9_TruncationDefensive ==
    max_chunks >= 1 =>
        /\ Len(chunks) <= max_chunks
        /\ pc = "done" => result = chunks

\* The return is reached with the output exactly at the limit.
C9_Witness ==
    /\ pc = "done"
    /\ max_chunks >= 1
    /\ Len(chunks) = max_chunks
    /\ result = chunks

\* ---------------------------------------------------------------------- C6
BadResponse(resp) == resp.status # 200 \/ resp.dim # DIM

\* C6: a non-200 response or a vector of the wrong dimension, for any chunk, is
\* the last thing the run does: it ends in error with no output directory and
\* no output file; the file is written only after every chunk, in chunk order,
\* was embedded successfully, and holds one row per chunk, numbered from 0.
C6_EmbeddingFailureFatal ==
    /\ \A k \in 1..Len(provider_log) :
           /\ k <= Len(result)
           /\ provider_log[k].input = result[k]
           /\ BadResponse(provider_log[k].resp)
                => /\ k = Len(provider_log)
                   /\ mpc = "exit_error"
                   /\ exit_msg \in {"RuntimeError", "ValueError"}
                   /\ ~out_dir
                   /\ out_file = NoFile
    /\ (out_dir \/ out_file.written)
           => /\ mpc = "exit_ok"
              /\ out_dir /\ out_file.written
              /\ Len(provider_log) = Len(result)
              /\ Len(out_file.rows) = Len(result)
              /\ \A k \in 1..Len(result) :
                     /\ out_file.rows[k].chunk_index = k - 1
                     /\ out_file.rows[k].content = sql_escape(result[k])
                     /\ out_file.rows[k].dim = DIM
    /\ mpc = "exit_ok" => out_file.written

\* The second chunk's embedding failed after the first one's succeeded.
C6_Witness ==
    /\ mpc = "exit_error"
    /\ Len(provider_log) = 2
    /\ ~BadResponse(provider_log[1].resp)
    /\ BadResponse(provider_log[2].resp)
    /\ out_file = NoFile

\* ---------------------------------------------------------------------- C7
NoText == "No text extracted from PDF."
NoChunks == "Chunking produced no output."

\* C7: an empty extraction and an empty chunk list each end the run in error at
\* once; a run that ended so has sent the provider nothing and has created
\* neither the output directory nor the file; chunking, embedding and writing
\* are only reached with paragraphs, resp. chunks, in hand.
C7_EmptyInputFatal ==
    /\ [][(mpc = "extract" /\ paragraphs' = <<>>)
            => (mpc' = "exit_error" /\ exit_msg' = NoText)]_vars
    /\ [][(mpc = "chunk" /\ pc = "done" /\ result = <<>>)
            => (mpc' = "exit_error" /\ exit_msg' = NoChunks)]_vars
    /\ [](exit_msg \in {NoText, NoChunks}
            => /\ mpc = "exit_error"
               /\ provider_log = <<>>
               /\ ~out_dir
               /\ out_file = NoFile)
    /\ [](mpc = "chunk" => paragraphs # <<>>)
    /\ []((mpc \in {"embed", "exit_ok"} \/ provider_log # <<>> \/ out_dir
              \/ out_file.written)
            => (paragraphs # <<>> /\ result # <<>>))

\* Paragraphs were extracted, every chunk was rejected, and the run ended.
C7_Witness ==
    /\ mpc = "exit_error"
    /\ exit_msg = NoChunks
    /\ Len(paragraphs) >= 2
    /\ provider_log = <<>>

\* --------------------------------------------------------------------- C10
IsVerdict(line) == line.what \in {"saved", "skipped"}
Verdicts == SelectSeq(log_lines, IsVerdict)
CountOf(what) == Cardinality({ k \in 1..Len(Verdicts) : Verdicts[k].what = what })

\* Each ID handed to fetch_case so far was handed once, in ascending order from
\* start, and has exactly one verdict line, saved or skipped, counted in saved
\* and skipped; an error line is followed by the same ID's skipped line.
VisitedOnceAndClassified ==
    /\ \A k \in 1..Len(fetched) : fetched[k] = d_start + k - 1
    /\ Len(Verdicts) = Len(fetched)
    /\ \A k \in 1..Len(Verdicts) : Verdicts[k].id = fetched[k] /\ Verdicts[k].idx = k
    /\ saved = CountOf("saved")
    /\ skipped = CountOf("skipped")
    /\ saved + skipped = Len(fetched)
    /\ \A k \in 1..Len(log_lines) :
           log_lines[k].what = "error"
              => /\ k < Len(log_lines)
                 /\ log_lines[k + 1].what = "skipped"
                 /\ log_lines[k + 1].id = log_lines[k].id

\* At DONE every ID of [start, end] was visited and saved + skipped = total.
DoneTotals ==
    dpc = "done" =>
        /\ Len(fetched) = total
        /\ total = d_end - d_start + 1
        /\ saved + skipped = total
        /\ log_lines[Len(log_lines)] =
               [what |-> "DONE", saved |-> saved, skipped |-> skipped, total |-> total]

\* The run is before the loop, in it with the next ID to visit, or done.
NotAborted ==
    /\ dpc \in {"args", "exit_1", "loop", "done"}
    /\ dpc = "exit_1" => d_start > d_end
    /\ dpc = "loop" => Len(fetched) = ntst_id - d_start

====
